---------------------------- MODULE Spec2Model ----------------------------
(***************************************************************************)
(* Model of fuse_ll/src/fuse/request.rs: Request::dispatch, the FUSE       *)
(* request dispatcher, and Request::reply.                                 *)
(*                                                                         *)
(* One dispatch call is one action.  The ordered effects of the call (the  *)
(* reply objects it creates, the replies it sends itself, the filesystem   *)
(* methods it invokes, the session fields it assigns, a panic) are kept in *)
(* `trace`, in program order, so that ordering claims can be stated.       *)
(*                                                                         *)
(* A u32 bit mask is modelled as the set of the positions of its 1 bits    *)
(* (bit 31 does not fit TLC's integers): `a & b` is the intersection,      *)
(* `a | b` the union and `a & b == 0` is emptiness of the intersection.    *)
(***************************************************************************)
EXTENDS Integers, Sequences, FiniteSets

\* ------------------------------------------------------------------ bounds

\* Correlation ids ("unique") of the requests are 1..MaxUnique.
MaxUnique == 2

\* The teardown arm is explored until the destroy hook has run this often.
MaxDestroyCalls == 2

\* --------------------------------------------------------------- constants

\* libc error numbers, kept symbolic (their values differ per platform).
EIO == "EIO"
ENOSYS == "ENOSYS"
EPROTO == "EPROTO"

\* abi: the protocol version this implementation speaks.
FUSE_KERNEL_VERSION == 7
FUSE_KERNEL_MINOR_VERSION == 8

\* session: largest write, and the size of the receive buffer.
MAX_WRITE_SIZE == 16777216
BUFFER_SIZE == MAX_WRITE_SIZE + 4096

\* abi::consts: capability flags of the handshake (bit positions).
FUSE_ASYNC_READ == {0}
FUSE_CASE_INSENSITIVE == {29}
FUSE_VOL_RENAME == {30}
FUSE_XTIMES == {31}

\* abi::consts: validity bits of fuse_setattr_in.valid (bit positions).
FATTR_MODE == {0}
FATTR_UID == {1}
FATTR_GID == {2}
FATTR_SIZE == {3}
FATTR_ATIME == {4}
FATTR_MTIME == {5}
FATTR_FH == {6}
FATTR_CRTIME == {28}
FATTR_CHGTIME == {29}
FATTR_BKUPTIME == {30}
FATTR_FLAGS == {31}

\* abi::consts: release_flags bit asking for a flush.
FUSE_RELEASE_FLUSH == {0}

\* INIT_FLAGS, per build target.
INIT_FLAGS(isMac) ==
    IF isMac
    THEN FUSE_ASYNC_READ \cup FUSE_CASE_INSENSITIVE \cup FUSE_VOL_RENAME \cup FUSE_XTIMES
    ELSE FUSE_ASYNC_READ

\* a & b on bit masks.
BitAnd(a, b) == a \cap b

\* `match x & m { 0 => None, _ => Some(v) }`
None == [some |-> FALSE]
Some(v) == [some |-> TRUE, val |-> v]
IfBit(x, m, v) == IF BitAnd(x, m) = {} THEN None ELSE Some(v)

\* `match x & m { 0 => false, _ => true }`
BitSet(x, m) == BitAnd(x, m) # {}

\* ------------------------------------------------------------------- state

VARIABLES
    macos,          \* the build target is macOS (cfg(target_os = "macos"))
    se,             \* the Session: initialized, destroyed, proto_major, proto_minor
    req,            \* the request of the last dispatch
    pre,            \* history: the session as the last dispatch found it
    trace,          \* history: the ordered effects of the last dispatch
    destroyCalls,   \* history: how often Filesystem::destroy has been invoked
    negotiated,     \* history: some dispatch has assigned proto_major/proto_minor
    aborted         \* a dispatch has panicked; the dispatching thread is gone

vars == <<macos, se, req, pre, trace, destroyCalls, negotiated, aborted>>


\* ---------------------------------------------------------------- requests

Uniques == 1..MaxUnique

\* Node ids of the request headers; disjoint from the correlation ids.
NodeIds == {11, 12}

\* A u64 too large for TLC's integers is written k * 2^63 + n with a small n.
Big(k, n) == [k |-> k, n |-> n]
\* v >= 2^64: the value does not fit a u64.
OverflowsU64(v) == v.k > 2 \/ (v.k = 2 /\ v.n >= 0)
\* v > i64::MAX: the value does not fit the tv_sec of a SystemTime.
OverflowsI64(v) == v.k >= 2 \/ (v.k = 1 /\ v.n >= 0)

NANOS_PER_SEC == 1000000000

\* Duration::new(secs, nanos): nanoseconds past a second carry into the
\* seconds, and the carry panics when the seconds overflow a u64.
DurationNew(secs, nanos) ==
    IF nanos < NANOS_PER_SEC
    THEN [secs |-> secs, nanos |-> nanos, panic |-> FALSE]
    ELSE LET s == Big(secs.k, secs.n + (nanos \div NANOS_PER_SEC))
         IN  [secs |-> s, nanos |-> nanos % NANOS_PER_SEC,
              panic |-> OverflowsU64(s)]

\* UNIX_EPOCH.checked_add(Duration::new(secs, nanos)): None when the sum is
\* not representable.
CheckedAddEpoch(secs, nanos) ==
    LET d == DurationNew(secs, nanos)
    IN  IF d.panic THEN [panic |-> TRUE]
        ELSE IF OverflowsI64(d.secs) THEN [some |-> FALSE, panic |-> FALSE]
        ELSE [some |-> TRUE, val |-> [secs |-> d.secs, nanos |-> d.nanos],
              panic |-> FALSE]

\* UNIX_EPOCH + Duration::new(secs, nanos): the Add impl panics where
\* checked_add gives None.
AddEpoch(secs, nanos) ==
    LET c == CheckedAddEpoch(secs, nanos)
    IN  IF c.panic \/ ~c.some THEN [panic |-> TRUE]
        ELSE [val |-> c.val, panic |-> FALSE]

\* SystemTime::now()
Now == "now"

\* Header fields every request carries.
Headers(op) == [op : {op}, unique : Uniques, nodeid : NodeIds]

Req(h, a) == [op |-> h.op, unique |-> h.unique, nodeid |-> h.nodeid, arg |-> a]

\* fuse_init_in samples: versions around the 7.6 limit, read-ahead below, at
\* and above BUFFER_SIZE (up to 2^31 - 1), flags inside and outside both INIT_FLAGS masks.
InitArgs ==
    { [major |-> v[1], minor |-> v[2], max_readahead |-> x[1], flags |-> x[2]] :
        v \in {<<6, 31>>, <<7, 5>>, <<7, 6>>, <<7, 31>>, <<8, 0>>},
        x \in {<<0, {}>>, <<131072, {0, 1, 29}>>, <<BUFFER_SIZE, {0, 29, 30, 31}>>,
               <<BUFFER_SIZE + 1, {0, 5, 30, 31}>>, <<2147483647, {5}>>} }

\* fuse_setattr_in samples: validity masks with none, one and many bits, and
\* seconds of 5, 2^63 (one past i64::MAX) and 2^64 - 1 (u64::MAX).
SetAttrValids ==
    { {}, FATTR_SIZE, FATTR_ATIME, FATTR_MTIME \cup FATTR_CRTIME,
      FATTR_MODE \cup FATTR_UID \cup FATTR_GID \cup FATTR_SIZE \cup FATTR_ATIME
        \cup FATTR_MTIME \cup FATTR_FH,
      FATTR_CRTIME \cup FATTR_CHGTIME \cup FATTR_BKUPTIME \cup FATTR_FLAGS }

SetAttrArgs ==
    { [flags |-> 24, valid |-> m, mode |-> 0, uid |-> 21, gid |-> 22,
       size |-> 0, atime |-> t, atimensec |-> 1, mtime |-> t,
       mtimensec |-> NANOS_PER_SEC, fh |-> 23, crtime |-> t, crtimensec |-> 2,
       chgtime |-> t, chgtimensec |-> 3, bkuptime |-> t,
       bkuptimensec |-> 2 * NANOS_PER_SEC] :
        m \in SetAttrValids, t \in {Big(0, 5), Big(1, 0), Big(2, -1)} }

\* Write and SetXAttr samples: payloads that agree and disagree with `size`.
WriteArgs ==
    { [size |-> x[1], fh |-> 31, offset |-> 32, write_flags |-> 33,
       data |-> x[2]] :
        x \in {<<2, <<7, 8>>>>, <<1, <<7, 8>>>>, <<0, <<>>>>} }

SetXAttrArgs ==
    { [flags |-> 41, size |-> x[1], position |-> 42, name |-> "n1",
       value |-> x[2]] :
        x \in {<<1, <<9>>>>, <<2, <<9>>>>} }

LkArg == [fh |-> 51, owner |-> 52, lk |-> [start |-> 53, end |-> 54, typ |-> 55, pid |-> 56]]

\* The argument samples of each operation (the fields its arm reads).
ArgsOf(op) ==
    CASE op = "Init" -> InitArgs
      [] op = "Interrupt" -> {[unique |-> 1]}
      [] op = "Lookup" -> {[name |-> "n1"]}
      [] op = "Forget" -> {[nlookup |-> 3]}
      [] op = "SetAttr" -> SetAttrArgs
      [] op = "MkNod" -> {[mode |-> 61, name |-> "n1", rdev |-> 62]}
      [] op = "MkDir" -> {[mode |-> 61, name |-> "n1"]}
      [] op = "Unlink" -> {[name |-> "n1"]}
      [] op = "RmDir" -> {[name |-> "n1"]}
      [] op = "SymLink" -> {[name |-> "n1", link |-> "n2"]}
      [] op = "Rename" -> {[name |-> "n1", newdir |-> 13, newname |-> "n2"]}
      [] op = "Link" -> {[name |-> "n1", oldnodeid |-> 14]}
      [] op = "Open" -> {[flags |-> 71]}
      [] op = "Read" -> {[size |-> 34, fh |-> 31, offset |-> 32]}
      [] op = "Write" -> WriteArgs
      [] op = "Flush" -> {[fh |-> 31, lock_owner |-> 35]}
      [] op = "Release" ->
            {[flags |-> 71, fh |-> 31, lock_owner |-> 35, release_flags |-> f] :
                f \in {{}, {0}, {1}}}
      [] op = "FSync" -> {[fh |-> 31, fsync_flags |-> f] : f \in {{}, {0}, {1}}}
      [] op = "OpenDir" -> {[flags |-> 71]}
      [] op = "ReadDir" -> {[size |-> 34, fh |-> 31, offset |-> 32]}
      [] op = "ReleaseDir" -> {[flags |-> 71, fh |-> 31]}
      [] op = "FSyncDir" -> {[fh |-> 31, fsync_flags |-> f] : f \in {{}, {0}, {1}}}
      [] op = "SetXAttr" -> SetXAttrArgs
      [] op = "GetXAttr" -> {[size |-> 34, name |-> "n1"]}
      [] op = "ListXAttr" -> {[size |-> 34]}
      [] op = "RemoveXAttr" -> {[name |-> "n1"]}
      [] op = "Access" -> {[mask |-> 81]}
      [] op = "Create" -> {[flags |-> 71, mode |-> 61, name |-> "n1"]}
      [] op = "GetLk" -> {LkArg}
      [] op = "SetLk" -> {LkArg}
      [] op = "SetLkW" -> {LkArg}
      [] op = "BMap" -> {[blocksize |-> 91, block |-> 92]}
      [] op = "SetVolName" -> {[name |-> "n1"]}
      [] op = "Exchange" ->
            {[newdir |-> 13, newname |-> "n2", olddir |-> 15, options |-> 93,
              oldname |-> "n1"]}
      [] OTHER -> {[none |-> TRUE]}

\* ll_request::Operation variants of every build, and the macOS-only ones.
CommonOps ==
    { "Init", "Destroy", "Interrupt", "Lookup", "Forget", "GetAttr", "SetAttr",
      "ReadLink", "MkNod", "MkDir", "Unlink", "RmDir", "SymLink", "Rename",
      "Link", "Open", "Read", "Write", "Flush", "Release", "FSync", "OpenDir",
      "ReadDir", "ReleaseDir", "FSyncDir", "StatFs", "SetXAttr", "GetXAttr",
      "ListXAttr", "RemoveXAttr", "Access", "Create", "GetLk", "SetLk",
      "SetLkW", "BMap" }
MacOps == { "SetVolName", "GetXTimes", "Exchange" }
Ops(isMac) == IF isMac THEN CommonOps \cup MacOps ELSE CommonOps

Requests(op) == { Req(h, a) : h \in Headers(op), a \in ArgsOf(op) }

\* ----------------------------------------------------------------- effects

\* reply binding the reply object to the node id of the header.
replyNodeId(r, type) == [unique |-> r.nodeid, type |-> type]

\* Request::reply: a reply object bound to the request's unique id.
reply(r, type) == [unique |-> r.unique, type |-> type]

\* ReplyDirectory::new(unique, ch, size)
ReplyDirectoryNew(unique, size) == [unique |-> unique, size |-> size,
                                    type |-> "ReplyDirectory"]

\* The effects a dispatch can have, as entries of `trace`.
Create(rep) == [reply |-> rep, ev |-> "create"]
SendError(rep, code) ==
    [unique |-> rep.unique, ev |-> "send", ok |-> FALSE, error |-> code,
     payload |-> <<>>]
SendOk(rep, payload) ==
    [unique |-> rep.unique, ev |-> "send", ok |-> TRUE, error |-> "",
     payload |-> payload]
Call(method, args) == [ev |-> "call", method |-> method, args |-> args]
\* A filesystem method that is handed the reply object rep.
CallReply(method, args, rep) ==
    [reply |-> rep, ev |-> "call", method |-> method, args |-> args]
\* Filesystem::init, the one method whose return value dispatch reads.
CallInit(args, ret) == [ev |-> "call", method |-> "init", args |-> args, ret |-> ret]
Set(field, value) == [value |-> value, ev |-> "set", field |-> field]
Panic == [ev |-> "panic"]

\* An arm that hands the request to one filesystem method with a fresh reply
\* object as its last argument (the arguments are evaluated before the call).
Forward(r, method, args) ==
    LET rep == reply(r, "Reply")
    IN  <<Create(rep), CallReply(method, args, rep)>>

\* Arm with the teardown arm placed above the `!se.initialized` guard.
ArmDestroyFirst(r, s) ==
    IF r.op = "Init" THEN "Init"
    ELSE IF r.op = "Destroy" THEN "Destroy"
    ELSE IF ~s.initialized THEN "BeforeInit"
    ELSE IF s.destroyed THEN "AfterDestroy"
    ELSE r.op

\* The match of Request::dispatch: the first arm, in source order, whose
\* pattern and guard accept the operation in session s.
Arm(r, s) ==
    IF r.op = "Init" THEN "Init"
    ELSE IF ~s.initialized THEN "BeforeInit"
    ELSE IF r.op = "Destroy" THEN "Destroy"
    ELSE IF s.destroyed THEN "AfterDestroy"
    ELSE r.op

\* What Filesystem::init may return: Ok(()) or Err(c_int).
InitResults == {[ok |-> TRUE], [ok |-> FALSE, err |-> "ENOMEM"], [ok |-> FALSE, err |-> EIO]}

\* InitOut echoing the kernel's version instead of stating its own.
InitOutEcho(arg, isMac) ==
    [major |-> arg.major,
     minor |-> arg.minor,
     max_readahead |-> IF BUFFER_SIZE < arg.max_readahead
                       THEN BUFFER_SIZE ELSE arg.max_readahead,
     flags |-> BitAnd(arg.flags, INIT_FLAGS(isMac)),
     unused |-> 0,
     max_write |-> MAX_WRITE_SIZE]

\* InitOut accepting any read-ahead size.
InitOutAnyReadahead(arg, isMac) ==
    [major |-> FUSE_KERNEL_VERSION,
     minor |-> FUSE_KERNEL_MINOR_VERSION,
     max_readahead |-> arg.max_readahead,
     flags |-> BitAnd(arg.flags, INIT_FLAGS(isMac)),
     unused |-> 0,
     max_write |-> MAX_WRITE_SIZE]

\* InitOut announcing every supported flag, advertised by the kernel or not.
InitOutAllFlags(arg, isMac) ==
    [major |-> FUSE_KERNEL_VERSION,
     minor |-> FUSE_KERNEL_MINOR_VERSION,
     max_readahead |-> IF BUFFER_SIZE < arg.max_readahead
                       THEN BUFFER_SIZE ELSE arg.max_readahead,
     flags |-> INIT_FLAGS(isMac),
     unused |-> 0,
     max_write |-> MAX_WRITE_SIZE]

\* The fuse_init_out of a successful handshake.
InitOut(arg, isMac) ==
    [major |-> FUSE_KERNEL_VERSION,
     minor |-> FUSE_KERNEL_MINOR_VERSION,
     max_readahead |-> IF BUFFER_SIZE < arg.max_readahead
                       THEN BUFFER_SIZE ELSE arg.max_readahead,
     flags |-> BitAnd(arg.flags, INIT_FLAGS(isMac)),
     unused |-> 0,
     max_write |-> MAX_WRITE_SIZE]

\* InitArm storing the major version in both session fields.
InitArmMinorSlip(r, res, isMac) ==
    LET rep == reply(r, "ReplyRaw")
        arg == r.arg
    IN  IF arg.major < 7 \/ (arg.major = 7 /\ arg.minor < 6)
        THEN <<Create(rep), SendError(rep, EPROTO)>>
        ELSE <<Create(rep), Set("proto_major", arg.major), Set("proto_minor", arg.major),
               CallInit([unique |-> r.unique], res)>>
             \o (IF ~res.ok
                 THEN <<SendError(rep, res.err)>>
                 ELSE <<Set("initialized", TRUE), SendOk(rep, <<InitOut(arg, isMac)>>)>>)

\* InitArm remembering the kernel's version before it checks it.
InitArmRecordFirst(r, res, isMac) ==
    LET rep == reply(r, "ReplyRaw")
        arg == r.arg
    IN  <<Create(rep), Set("proto_major", arg.major), Set("proto_minor", arg.minor)>>
        \o (IF arg.major < 7 \/ (arg.major = 7 /\ arg.minor < 6)
            THEN <<SendError(rep, EPROTO)>>
            ELSE <<CallInit([unique |-> r.unique], res)>>
                 \o (IF ~res.ok
                     THEN <<SendError(rep, res.err)>>
                     ELSE <<Set("initialized", TRUE), SendOk(rep, <<InitOut(arg, isMac)>>)>>))

\* Arm `Operation::Init { arg }`; res is what Filesystem::init returns.
InitArm(r, res, isMac) ==
    LET rep == reply(r, "ReplyRaw")
        arg == r.arg
    IN  IF arg.major < 7 \/ (arg.major = 7 /\ arg.minor < 6)
        THEN <<Create(rep), SendError(rep, EPROTO)>>
        ELSE <<Create(rep), Set("proto_major", arg.major), Set("proto_minor", arg.minor),
               CallInit([unique |-> r.unique], res)>>
             \o (IF ~res.ok
                 THEN <<SendError(rep, res.err)>>
                 ELSE <<Set("initialized", TRUE), SendOk(rep, <<InitOut(arg, isMac)>>)>>)

\* Arm `_ if !se.initialized`
BeforeInitArm(r) ==
    LET rep == reply(r, "ReplyEmpty") IN <<Create(rep), SendError(rep, EIO)>>

\* DestroyArm marking the session destroyed before it runs the hook.
DestroyArmFlagFirst(r) ==
    LET rep == reply(r, "ReplyEmpty")
    IN  <<Set("destroyed", TRUE), Call("destroy", [unique |-> r.unique]),
          Create(rep), SendOk(rep, <<>>)>>

\* DestroyArm taking the session back to uninitialized on teardown.
DestroyArmUninit(r) ==
    LET rep == reply(r, "ReplyEmpty")
    IN  <<Call("destroy", [unique |-> r.unique]), Set("initialized", FALSE),
          Set("destroyed", TRUE), Create(rep), SendOk(rep, <<>>)>>

\* Arm `Operation::Destroy`
DestroyArm(r) ==
    LET rep == reply(r, "ReplyEmpty")
    IN  <<Call("destroy", [unique |-> r.unique]), Set("destroyed", TRUE),
          Create(rep), SendOk(rep, <<>>)>>

\* AfterDestroyArm sending the session back to before the handshake.
AfterDestroyArmReset(r) ==
    LET rep == reply(r, "ReplyEmpty")
    IN  <<Set("initialized", FALSE), Create(rep), SendError(rep, EIO)>>

\* Arm `_ if se.destroyed`
AfterDestroyArm(r) ==
    LET rep == reply(r, "ReplyEmpty") IN <<Create(rep), SendError(rep, EIO)>>

\* InterruptArm answering with the code of the two session guards.
InterruptArmEIO(r) ==
    LET rep == reply(r, "ReplyEmpty") IN <<Create(rep), SendError(rep, EIO)>>

\* InterruptArm dropping the request without an answer.
InterruptArmSilent(r) == <<>>

\* Arm `Operation::Interrupt { .. }`
InterruptArm(r) ==
    LET rep == reply(r, "ReplyEmpty") IN <<Create(rep), SendError(rep, ENOSYS)>>

\* `arg.offset as i64`: every sampled offset is below 2^63, where the cast
\* keeps the value.
AsI64(x) == x

\* atime / mtime of SetAttr: `Some(UNIX_EPOCH + Duration::new(secs, nsec))`
PlainTime(valid, bit, secs, nsec) ==
    IF BitAnd(valid, bit) = {} THEN [panic |-> FALSE, opt |-> None]
    ELSE LET t == AddEpoch(secs, nsec)
         IN  IF t.panic THEN [panic |-> TRUE] ELSE [panic |-> FALSE, opt |-> Some(t.val)]

\* crtime / chgtime / bkuptime of get_macos_setattr (macOS build):
\* checked_add, and SystemTime::now() where it gives None.
CheckedTime(valid, bit, secs, nsec) ==
    IF BitAnd(valid, bit) = {} THEN [panic |-> FALSE, opt |-> None]
    ELSE LET t == CheckedAddEpoch(secs, nsec)
         IN  IF t.panic THEN [panic |-> TRUE]
             ELSE IF t.some THEN [panic |-> FALSE, opt |-> Some(t.val)]
             ELSE [panic |-> FALSE, opt |-> Some(Now)]

\* get_macos_setattr, both builds: (crtime, chgtime, bkuptime, flags).
get_macos_setattr(arg, isMac) ==
    IF ~isMac
    THEN [panic |-> FALSE, flags |-> None, crtime |-> None, chgtime |-> None,
          bkuptime |-> None]
    ELSE LET cr == CheckedTime(arg.valid, FATTR_CRTIME, arg.crtime, arg.crtimensec)
             ch == CheckedTime(arg.valid, FATTR_CHGTIME, arg.chgtime, arg.chgtimensec)
             bk == CheckedTime(arg.valid, FATTR_BKUPTIME, arg.bkuptime, arg.bkuptimensec)
         IN  IF cr.panic \/ ch.panic \/ bk.panic THEN [panic |-> TRUE]
             ELSE [panic |-> FALSE,
                   flags |-> IfBit(arg.valid, FATTR_FLAGS, arg.flags),
                   crtime |-> cr.opt, chgtime |-> ch.opt, bkuptime |-> bk.opt]

\* Arm `Operation::SetAttr { arg }`
SetAttrArm(r, isMac) ==
    LET arg == r.arg
        atime == PlainTime(arg.valid, FATTR_ATIME, arg.atime, arg.atimensec)
        mtime == PlainTime(arg.valid, FATTR_MTIME, arg.mtime, arg.mtimensec)
        mac == get_macos_setattr(arg, isMac)
    IN  IF atime.panic \/ mtime.panic \/ mac.panic THEN <<Panic>>
        ELSE Forward(r, "setattr",
                [nodeid |-> r.nodeid, flags |-> mac.flags,
                 mode |-> IfBit(arg.valid, FATTR_MODE, arg.mode),
                 uid |-> IfBit(arg.valid, FATTR_UID, arg.uid),
                 gid |-> IfBit(arg.valid, FATTR_GID, arg.gid),
                 size |-> IfBit(arg.valid, FATTR_SIZE, arg.size),
                 atime |-> atime.opt, mtime |-> mtime.opt,
                 fh |-> IfBit(arg.valid, FATTR_FH, arg.fh),
                 crtime |-> mac.crtime, chgtime |-> mac.chgtime,
                 bkuptime |-> mac.bkuptime])

\* WriteArm without the length assertion.
WriteArmUnchecked(r) ==
    Forward(r, "write",
        [nodeid |-> r.nodeid, flags |-> r.arg.write_flags,
         fh |-> r.arg.fh, offset |-> AsI64(r.arg.offset),
         data |-> r.arg.data])

\* Arm `Operation::Write { arg, data }`
WriteArm(r) ==
    IF Len(r.arg.data) # r.arg.size THEN <<Panic>>
    ELSE Forward(r, "write",
            [nodeid |-> r.nodeid, flags |-> r.arg.write_flags,
             fh |-> r.arg.fh, offset |-> AsI64(r.arg.offset),
             data |-> r.arg.data])

\* get_position, both builds.
get_position(arg, isMac) == IF isMac THEN arg.position ELSE 0

\* Arm `Operation::SetXAttr { arg, name, value }`
SetXAttrArm(r, isMac) ==
    IF Len(r.arg.value) # r.arg.size THEN <<Panic>>
    ELSE Forward(r, "setxattr",
            [nodeid |-> r.nodeid, flags |-> r.arg.flags,
             position |-> get_position(r.arg, isMac), name |-> r.arg.name,
             value |-> r.arg.value])

\* Arm `Operation::ReadDir { arg }`: the reply is a ReplyDirectory.
ReadDirArm(r) ==
    LET rep == ReplyDirectoryNew(r.unique, r.arg.size)
    IN  <<Create(rep),
          CallReply("readdir", [nodeid |-> r.nodeid, fh |-> r.arg.fh,
                                offset |-> AsI64(r.arg.offset)], rep)>>

\* ForgetArm answering the request like the other arms do.
ForgetArmReply(r) ==
    Forward(r, "forget", [nodeid |-> r.nodeid, nlookup |-> r.arg.nlookup])

\* Arm `Operation::Forget { arg }`: no reply object.
ForgetArm(r) ==
    <<Call("forget", [nodeid |-> r.nodeid, nlookup |-> r.arg.nlookup])>>

\* LkFields passing the lock owner where the node id belongs.
LkFieldsOwnerAsNode(r) ==
    [nodeid |-> r.arg.owner, fh |-> r.arg.fh, start |-> r.arg.lk.start,
     end |-> r.arg.lk.end, typ |-> r.arg.lk.typ, pid |-> r.arg.lk.pid,
     lock_owner |-> r.arg.owner]

\* The lock arguments of GetLk.
LkFields(r) ==
    [nodeid |-> r.nodeid, fh |-> r.arg.fh, start |-> r.arg.lk.start,
     end |-> r.arg.lk.end, typ |-> r.arg.lk.typ, pid |-> r.arg.lk.pid,
     lock_owner |-> r.arg.owner]

\* The lock arguments of SetLk (sleep = false) and SetLkW (sleep = true).
SetLkFields(r, sleep) ==
    [nodeid |-> r.nodeid, fh |-> r.arg.fh, start |-> r.arg.lk.start,
     end |-> r.arg.lk.end, typ |-> r.arg.lk.typ, pid |-> r.arg.lk.pid,
     lock_owner |-> r.arg.owner, sleep |-> sleep]

\* The remaining arms: one filesystem method each, with a generic reply.
ForwardArm(r) ==
    LET a == r.arg
        n == r.nodeid
    IN  CASE r.op = "Lookup" -> Forward(r, "lookup", [nodeid |-> n, name |-> a.name])
          [] r.op = "GetAttr" -> Forward(r, "getattr", [nodeid |-> n])
          [] r.op = "ReadLink" -> Forward(r, "readlink", [nodeid |-> n])
          [] r.op = "MkNod" ->
                Forward(r, "mknod", [nodeid |-> n, mode |-> a.mode,
                                     name |-> a.name, rdev |-> a.rdev])
          [] r.op = "MkDir" ->
                Forward(r, "mkdir", [nodeid |-> n, mode |-> a.mode,
                                     name |-> a.name])
          [] r.op = "Unlink" -> Forward(r, "unlink", [nodeid |-> n, name |-> a.name])
          [] r.op = "RmDir" -> Forward(r, "rmdir", [nodeid |-> n, name |-> a.name])
          [] r.op = "SymLink" ->
                Forward(r, "symlink", [nodeid |-> n, name |-> a.name, link |-> a.link])
          [] r.op = "Rename" ->
                Forward(r, "rename", [nodeid |-> n, name |-> a.name,
                                      newname |-> a.newname,
                                      newparent |-> a.newdir])
          [] r.op = "Link" ->
                Forward(r, "link", [nodeid |-> a.oldnodeid,
                                    newname |-> a.name, newparent |-> n])
          [] r.op = "Open" -> Forward(r, "open", [nodeid |-> n, flags |-> a.flags])
          [] r.op = "Read" ->
                Forward(r, "read", [nodeid |-> n, size |-> a.size,
                                    fh |-> a.fh, offset |-> AsI64(a.offset)])
          [] r.op = "Flush" ->
                Forward(r, "flush", [nodeid |-> n, fh |-> a.fh,
                                     lock_owner |-> a.lock_owner])
          [] r.op = "Release" ->
                Forward(r, "release", [nodeid |-> n, flags |-> a.flags,
                                       fh |-> a.fh,
                                       lock_owner |-> a.lock_owner,
                                       flush |-> BitSet(a.release_flags, FUSE_RELEASE_FLUSH)])
          [] r.op = "FSync" ->
                Forward(r, "fsync", [nodeid |-> n, fh |-> a.fh,
                                     datasync |-> BitSet(a.fsync_flags, {0})])
          [] r.op = "OpenDir" -> Forward(r, "opendir", [nodeid |-> n, flags |-> a.flags])
          [] r.op = "ReleaseDir" ->
                Forward(r, "releasedir", [nodeid |-> n, flags |-> a.flags,
                                          fh |-> a.fh])
          [] r.op = "FSyncDir" ->
                Forward(r, "fsyncdir", [nodeid |-> n, fh |-> a.fh,
                                        datasync |-> BitSet(a.fsync_flags, {0})])
          [] r.op = "StatFs" -> Forward(r, "statfs", [nodeid |-> n])
          [] r.op = "GetXAttr" ->
                Forward(r, "getxattr", [nodeid |-> n, size |-> a.size,
                                        name |-> a.name])
          [] r.op = "ListXAttr" -> Forward(r, "listxattr", [nodeid |-> n, size |-> a.size])
          [] r.op = "RemoveXAttr" ->
                Forward(r, "removexattr", [nodeid |-> n, name |-> a.name])
          [] r.op = "Access" -> Forward(r, "access", [nodeid |-> n, mask |-> a.mask])
          [] r.op = "Create" ->
                Forward(r, "create", [nodeid |-> n, flags |-> a.flags,
                                      mode |-> a.mode, name |-> a.name])
          [] r.op = "GetLk" -> Forward(r, "getlk", LkFields(r))
          [] r.op = "SetLk" -> Forward(r, "setlk", SetLkFields(r, FALSE))
          [] r.op = "SetLkW" -> Forward(r, "setlk", SetLkFields(r, TRUE))
          [] r.op = "BMap" ->
                Forward(r, "bmap", [nodeid |-> n, blocksize |-> a.blocksize,
                                    idx |-> a.block])
          [] r.op = "SetVolName" -> Forward(r, "setvolname", [name |-> a.name])
          [] r.op = "GetXTimes" -> Forward(r, "getxtimes", [nodeid |-> n])
          [] r.op = "Exchange" ->
                Forward(r, "exchange", [name |-> a.oldname,
                                        newname |-> a.newname,
                                        options |-> a.options,
                                        newparent |-> a.newdir,
                                        parent |-> a.olddir])

\* ----------------------------------------------------------------- actions

\* Session::new: nothing negotiated, neither flag set.
SessionNew ==
    [initialized |-> FALSE, destroyed |-> FALSE, proto_major |-> 0, proto_minor |-> 0]

NoReq == [op |-> "None", unique |-> 0, nodeid |-> 0, arg |-> [none |-> TRUE]]

\* The session after the assignments of a trace, in order.
RECURSIVE ApplySets(_, _)
ApplySets(s, tr) ==
    IF tr = <<>> THEN s
    ELSE LET e == Head(tr)
         IN  ApplySets(IF e.ev = "set" THEN [s EXCEPT ![e.field] = e.value] ELSE s,
                       Tail(tr))

IsCall(e, method) == e.ev = "call" /\ e.method = method
CountCalls(tr, method) == Cardinality({i \in DOMAIN tr : IsCall(tr[i], method)})
Panicked(tr) == \E i \in DOMAIN tr : tr[i].ev = "panic"
Assigns(tr, field) == \E i \in DOMAIN tr : tr[i].ev = "set" /\ tr[i].field = field

Init ==
    /\ macos \in BOOLEAN
    /\ se = SessionNew
    /\ req = NoReq
    /\ pre = SessionNew
    /\ trace = <<>>
    /\ destroyCalls = 0
    /\ negotiated = FALSE
    /\ aborted = FALSE

\* One call of Request::dispatch for request r whose effects are tr.
Step(r, tr) ==
    /\ ~aborted
    /\ r.op \in Ops(macos)
    /\ req' = r
    /\ pre' = se
    /\ trace' = tr
    /\ se' = ApplySets(se, tr)
    /\ destroyCalls' = destroyCalls + CountCalls(tr, "destroy")
    /\ negotiated' = (negotiated \/ Assigns(tr, "proto_major") \/ Assigns(tr, "proto_minor"))
    /\ aborted' = Panicked(tr)
    /\ UNCHANGED macos

DispatchInit ==
    \E r \in Requests("Init"), res \in InitResults :
        /\ Arm(r, se) = "Init"
        /\ Step(r, InitArm(r, res, macos))

DispatchBeforeInit ==
    \E op \in CommonOps \cup MacOps : \E r \in Requests(op) :
        /\ Arm(r, se) = "BeforeInit"
        /\ Step(r, BeforeInitArm(r))

DispatchDestroy ==
    \E r \in Requests("Destroy") :
        /\ Arm(r, se) = "Destroy"
        /\ destroyCalls < MaxDestroyCalls
        /\ Step(r, DestroyArm(r))

DispatchAfterDestroy ==
    \E op \in CommonOps \cup MacOps : \E r \in Requests(op) :
        /\ Arm(r, se) = "AfterDestroy"
        /\ Step(r, AfterDestroyArm(r))

DispatchInterrupt ==
    \E r \in Requests("Interrupt") :
        /\ Arm(r, se) = "Interrupt"
        /\ Step(r, InterruptArm(r))

DispatchForget ==
    \E r \in Requests("Forget") :
        /\ Arm(r, se) = "Forget"
        /\ Step(r, ForgetArm(r))

DispatchSetAttr ==
    \E r \in Requests("SetAttr") :
        /\ Arm(r, se) = "SetAttr"
        /\ Step(r, SetAttrArm(r, macos))

DispatchWrite ==
    \E r \in Requests("Write") :
        /\ Arm(r, se) = "Write"
        /\ Step(r, WriteArm(r))

DispatchSetXAttr ==
    \E r \in Requests("SetXAttr") :
        /\ Arm(r, se) = "SetXAttr"
        /\ Step(r, SetXAttrArm(r, macos))

DispatchReadDir ==
    \E r \in Requests("ReadDir") :
        /\ Arm(r, se) = "ReadDir"
        /\ Step(r, ReadDirArm(r))

DispatchLookup ==
    \E r \in Requests("Lookup") :
        /\ Arm(r, se) = "Lookup"
        /\ Step(r, ForwardArm(r))

DispatchGetAttr ==
    \E r \in Requests("GetAttr") :
        /\ Arm(r, se) = "GetAttr"
        /\ Step(r, ForwardArm(r))

DispatchReadLink ==
    \E r \in Requests("ReadLink") :
        /\ Arm(r, se) = "ReadLink"
        /\ Step(r, ForwardArm(r))

DispatchMkNod ==
    \E r \in Requests("MkNod") :
        /\ Arm(r, se) = "MkNod"
        /\ Step(r, ForwardArm(r))

DispatchMkDir ==
    \E r \in Requests("MkDir") :
        /\ Arm(r, se) = "MkDir"
        /\ Step(r, ForwardArm(r))

DispatchUnlink ==
    \E r \in Requests("Unlink") :
        /\ Arm(r, se) = "Unlink"
        /\ Step(r, ForwardArm(r))

DispatchRmDir ==
    \E r \in Requests("RmDir") :
        /\ Arm(r, se) = "RmDir"
        /\ Step(r, ForwardArm(r))

DispatchSymLink ==
    \E r \in Requests("SymLink") :
        /\ Arm(r, se) = "SymLink"
        /\ Step(r, ForwardArm(r))

DispatchRename ==
    \E r \in Requests("Rename") :
        /\ Arm(r, se) = "Rename"
        /\ Step(r, ForwardArm(r))

DispatchLink ==
    \E r \in Requests("Link") :
        /\ Arm(r, se) = "Link"
        /\ Step(r, ForwardArm(r))

DispatchOpen ==
    \E r \in Requests("Open") :
        /\ Arm(r, se) = "Open"
        /\ Step(r, ForwardArm(r))

DispatchRead ==
    \E r \in Requests("Read") :
        /\ Arm(r, se) = "Read"
        /\ Step(r, ForwardArm(r))

DispatchFlush ==
    \E r \in Requests("Flush") :
        /\ Arm(r, se) = "Flush"
        /\ Step(r, ForwardArm(r))

DispatchRelease ==
    \E r \in Requests("Release") :
        /\ Arm(r, se) = "Release"
        /\ Step(r, ForwardArm(r))

DispatchFSync ==
    \E r \in Requests("FSync") :
        /\ Arm(r, se) = "FSync"
        /\ Step(r, ForwardArm(r))

DispatchOpenDir ==
    \E r \in Requests("OpenDir") :
        /\ Arm(r, se) = "OpenDir"
        /\ Step(r, ForwardArm(r))

DispatchReleaseDir ==
    \E r \in Requests("ReleaseDir") :
        /\ Arm(r, se) = "ReleaseDir"
        /\ Step(r, ForwardArm(r))

DispatchFSyncDir ==
    \E r \in Requests("FSyncDir") :
        /\ Arm(r, se) = "FSyncDir"
        /\ Step(r, ForwardArm(r))

DispatchStatFs ==
    \E r \in Requests("StatFs") :
        /\ Arm(r, se) = "StatFs"
        /\ Step(r, ForwardArm(r))

DispatchGetXAttr ==
    \E r \in Requests("GetXAttr") :
        /\ Arm(r, se) = "GetXAttr"
        /\ Step(r, ForwardArm(r))

DispatchListXAttr ==
    \E r \in Requests("ListXAttr") :
        /\ Arm(r, se) = "ListXAttr"
        /\ Step(r, ForwardArm(r))

DispatchRemoveXAttr ==
    \E r \in Requests("RemoveXAttr") :
        /\ Arm(r, se) = "RemoveXAttr"
        /\ Step(r, ForwardArm(r))

DispatchAccess ==
    \E r \in Requests("Access") :
        /\ Arm(r, se) = "Access"
        /\ Step(r, ForwardArm(r))

DispatchCreate ==
    \E r \in Requests("Create") :
        /\ Arm(r, se) = "Create"
        /\ Step(r, ForwardArm(r))

DispatchGetLk ==
    \E r \in Requests("GetLk") :
        /\ Arm(r, se) = "GetLk"
        /\ Step(r, ForwardArm(r))

DispatchSetLk ==
    \E r \in Requests("SetLk") :
        /\ Arm(r, se) = "SetLk"
        /\ Step(r, ForwardArm(r))

DispatchSetLkW ==
    \E r \in Requests("SetLkW") :
        /\ Arm(r, se) = "SetLkW"
        /\ Step(r, ForwardArm(r))

DispatchBMap ==
    \E r \in Requests("BMap") :
        /\ Arm(r, se) = "BMap"
        /\ Step(r, ForwardArm(r))

DispatchSetVolName ==
    \E r \in Requests("SetVolName") :
        /\ Arm(r, se) = "SetVolName"
        /\ Step(r, ForwardArm(r))

DispatchGetXTimes ==
    \E r \in Requests("GetXTimes") :
        /\ Arm(r, se) = "GetXTimes"
        /\ Step(r, ForwardArm(r))

DispatchExchange ==
    \E r \in Requests("Exchange") :
        /\ Arm(r, se) = "Exchange"
        /\ Step(r, ForwardArm(r))

Next ==
    \/ DispatchInit
    \/ DispatchBeforeInit
    \/ DispatchDestroy
    \/ DispatchAfterDestroy
    \/ DispatchInterrupt
    \/ DispatchForget
    \/ DispatchSetAttr
    \/ DispatchWrite
    \/ DispatchSetXAttr
    \/ DispatchReadDir
    \/ DispatchLookup
    \/ DispatchGetAttr
    \/ DispatchReadLink
    \/ DispatchMkNod
    \/ DispatchMkDir
    \/ DispatchUnlink
    \/ DispatchRmDir
    \/ DispatchSymLink
    \/ DispatchRename
    \/ DispatchLink
    \/ DispatchOpen
    \/ DispatchRead
    \/ DispatchFlush
    \/ DispatchRelease
    \/ DispatchFSync
    \/ DispatchOpenDir
    \/ DispatchReleaseDir
    \/ DispatchFSyncDir
    \/ DispatchStatFs
    \/ DispatchGetXAttr
    \/ DispatchListXAttr
    \/ DispatchRemoveXAttr
    \/ DispatchAccess
    \/ DispatchCreate
    \/ DispatchGetLk
    \/ DispatchSetLk
    \/ DispatchSetLkW
    \/ DispatchBMap
    \/ DispatchSetVolName
    \/ DispatchGetXTimes
    \/ DispatchExchange

Spec == Init /\ [][Next]_vars

\* ------------------------------------------------------------------ claims

Sends(tr) == SelectSeq(tr, LAMBDA e : e.ev = "send")
Creates(tr) == SelectSeq(tr, LAMBDA e : e.ev = "create")
Calls(tr) == SelectSeq(tr, LAMBDA e : e.ev = "call")

\* A dispatch has happened.
Dispatched == req.op # "None"

\* The one error reply for the last request, with the given code.
ErrorReply(code) ==
    <<[unique |-> req.unique, ev |-> "send", ok |-> FALSE, error |-> code,
       payload |-> <<>>]>>

\* The advertised version of the last request, a handshake, is below 7.6.
VersionBelow76 ==
    req.arg.major < 7 \/ (req.arg.major = 7 /\ req.arg.minor < 6)

\* C1: every operation other than Init dispatched on a session whose
\* initialized flag is false is answered with exactly one EIO error reply and
\* leaves every session field as it was; Destroy, Interrupt and Forget too.
C1_BeforeInitEIO ==
    (Dispatched /\ req.op # "Init" /\ ~pre.initialized) =>
        /\ Sends(trace) = ErrorReply(EIO)
        /\ se = pre

\* C1 reached: a teardown on a session that a failed handshake left
\* uninitialized was answered with EIO.
C1_Witness ==
    /\ req.op = "Destroy"
    /\ ~pre.initialized
    /\ pre.proto_major = 7
    /\ Sends(trace) = ErrorReply(EIO)
    /\ ~se.destroyed

\* C2 (as claimed): once destroyed is true, every dispatched operation, Init
\* and Destroy included, is answered with an EIO error reply.
C2_AfterDestroyEIO ==
    (Dispatched /\ pre.destroyed) => Sends(trace) = ErrorReply(EIO)

\* C3 (as claimed): a protocol-violating dispatch invokes no filesystem
\* method, no method is invoked once the destroy hook has run, and the destroy
\* hook runs at most once.
C3_NoFilesystemCall ==
    /\ (Dispatched /\ req.op # "Init" /\ ~pre.initialized) => Calls(trace) = <<>>
    /\ (Dispatched /\ pre.destroyed) => Calls(trace) = <<>>
    /\ (req.op = "Init" /\ VersionBelow76) => Calls(trace) = <<>>
    /\ Calls(trace) # <<>> => destroyCalls - CountCalls(trace, "destroy") = 0
    /\ destroyCalls <= 1

\* C4: a handshake advertising a version below 7.6 is answered with exactly
\* one EPROTO error reply, the init hook is not called and no session field
\* changes.
C4_OldVersionEPROTO ==
    (req.op = "Init" /\ VersionBelow76) =>
        /\ Sends(trace) = ErrorReply(EPROTO)
        /\ Calls(trace) = <<>>
        /\ se = pre

\* C4 reached: version 7.5 was rejected on a fresh session, which stays
\* uninitialized.
C4_Witness ==
    /\ req.op = "Init"
    /\ req.arg.major = 7 /\ req.arg.minor = 5
    /\ Sends(trace) = ErrorReply(EPROTO)
    /\ se = SessionNew

\* The init hook ran in the last dispatch and returned res.
InitReturned(res) ==
    \E i \in DOMAIN trace : IsCall(trace[i], "init") /\ trace[i].ret = res

\* The init hook ran in the last dispatch and returned an error.
InitFailed == \E i \in DOMAIN trace : IsCall(trace[i], "init") /\ ~trace[i].ret.ok

\* C5: a handshake with version >= 7.6 on an uninitialized session whose init
\* hook succeeds makes the session initialized, records the advertised
\* major/minor and sends exactly one success reply carrying
\* FUSE_KERNEL_VERSION, FUSE_KERNEL_MINOR_VERSION and MAX_WRITE_SIZE; and only
\* such a dispatch turns initialized from false to true.
C5_HandshakeSuccess ==
    /\ (req.op = "Init" /\ ~pre.initialized /\ ~VersionBelow76
            /\ InitReturned([ok |-> TRUE])) =>
        /\ se.initialized
        /\ se.proto_major = req.arg.major
        /\ se.proto_minor = req.arg.minor
        /\ Len(Sends(trace)) = 1
        /\ Sends(trace)[1].ok
        /\ Sends(trace)[1].unique = req.unique
        /\ Len(Sends(trace)[1].payload) = 1
        /\ Sends(trace)[1].payload[1].major = FUSE_KERNEL_VERSION
        /\ Sends(trace)[1].payload[1].minor = FUSE_KERNEL_MINOR_VERSION
        /\ Sends(trace)[1].payload[1].max_write = MAX_WRITE_SIZE
    /\ (~pre.initialized /\ se.initialized) =>
        /\ req.op = "Init"
        /\ ~VersionBelow76
        /\ InitReturned([ok |-> TRUE])

\* C5 reached: the kernel advertised 8.0 on a fresh session and was answered
\* with this implementation's 7.8.
C5_Witness ==
    /\ req.op = "Init"
    /\ pre = SessionNew
    /\ req.arg.major = 8 /\ req.arg.minor = 0
    /\ se.initialized /\ se.proto_major = 8 /\ se.proto_minor = 0
    /\ Len(Sends(trace)) = 1
    /\ Sends(trace)[1].ok
    /\ Sends(trace)[1].payload[1].major = FUSE_KERNEL_VERSION

\* C6 (as claimed): when the init hook returns an error during a handshake
\* with an acceptable version, exactly one error reply with the hook's code is
\* sent and every session field is as before the handshake.
C6_HookFailureLeavesSession ==
    (req.op = "Init" /\ InitFailed) =>
        /\ \E res \in InitResults :
              ~res.ok /\ InitReturned(res) /\ Sends(trace) = ErrorReply(res.err)
        /\ se = pre

\* C7 (as claimed): once a dispatch has assigned the negotiated version, no
\* later dispatch assigns proto_major or proto_minor again.
C7_AssignedOnce ==
    [][negotiated =>
         ~(Assigns(trace', "proto_major") \/ Assigns(trace', "proto_minor"))]_vars

\* C7 (amended): proto_major and proto_minor are assigned by exactly the
\* handshakes whose advertised version is at least 7.6, the first and every
\* later one, each time to the advertised values; no other dispatch assigns
\* or changes them.
C7_AssignedByHandshakes ==
    /\ (Assigns(trace, "proto_major") \/ Assigns(trace, "proto_minor"))
          <=> (req.op = "Init" /\ ~VersionBelow76)
    /\ (req.op = "Init" /\ ~VersionBelow76) =>
          /\ se.proto_major = req.arg.major
          /\ se.proto_minor = req.arg.minor
    /\ ~(req.op = "Init" /\ ~VersionBelow76) =>
          /\ se.proto_major = pre.proto_major
          /\ se.proto_minor = pre.proto_minor

\* C7 reached: a second handshake on an initialized session replaced the
\* recorded 7.31 by 8.0.
C7_Witness ==
    /\ req.op = "Init"
    /\ pre.initialized
    /\ pre.proto_major = 7 /\ pre.proto_minor = 31
    /\ se.proto_major = 8 /\ se.proto_minor = 0

\* C8: a teardown on an initialized, not destroyed session invokes the destroy
\* hook exactly once, then sets destroyed, then sends exactly one success
\* reply without payload; it sends no error reply.
C8_Teardown ==
    (req.op = "Destroy" /\ pre.initialized /\ ~pre.destroyed) =>
        /\ CountCalls(trace, "destroy") = 1
        /\ Len(Calls(trace)) = 1
        /\ se.destroyed
        /\ Len(Sends(trace)) = 1
        /\ Sends(trace)[1].ok
        /\ Sends(trace)[1].payload = <<>>
        /\ \E i, j, k \in DOMAIN trace :
              /\ i < j /\ j < k
              /\ IsCall(trace[i], "destroy")
              /\ trace[j] = Set("destroyed", TRUE)
              /\ trace[k].ev = "send"

\* C8 reached: the first teardown of an initialized session.
C8_Witness ==
    /\ req.op = "Destroy"
    /\ pre.initialized /\ ~pre.destroyed
    /\ se.destroyed
    /\ destroyCalls = 1
    /\ Len(Sends(trace)) = 1

\* The last dispatch is one the dispatcher answers by itself.
SelfAnswered ==
    /\ Dispatched
    /\ \/ req.op \in {"Init", "Destroy", "Interrupt"}
       \/ ~pre.initialized
       \/ pre.destroyed

\* The last dispatch took the Forget arm.
TookForgetArm == req.op = "Forget" /\ pre.initialized /\ ~pre.destroyed

\* C9 (as claimed): every dispatch of an operation other than Forget creates
\* exactly one reply object, the dispatcher's own answers are exactly one
\* transmission, and only the Forget arm ends with no reply object.
C9_ExactlyOneReply ==
    Dispatched =>
        /\ req.op # "Forget" => Len(Creates(trace)) = 1
        /\ SelfAnswered => Len(Sends(trace)) = 1
        /\ Len(Creates(trace)) <= 1
        /\ Len(Sends(trace)) <= 1
        /\ Len(Creates(trace)) = 0 => TookForgetArm

\* The last request, a SetAttr, has a time field whose validity bit is set
\* and whose conversion panics: atime or mtime not representable as a
\* SystemTime, or (macOS) a Duration whose seconds overflow.
SetAttrTimePanics ==
    LET a == req.arg
    IN  \/ BitSet(a.valid, FATTR_ATIME) /\ AddEpoch(a.atime, a.atimensec).panic
        \/ BitSet(a.valid, FATTR_MTIME) /\ AddEpoch(a.mtime, a.mtimensec).panic
        \/ /\ macos
           /\ \/ BitSet(a.valid, FATTR_CRTIME) /\ DurationNew(a.crtime, a.crtimensec).panic
              \/ BitSet(a.valid, FATTR_CHGTIME) /\ DurationNew(a.chgtime, a.chgtimensec).panic
              \/ BitSet(a.valid, FATTR_BKUPTIME) /\ DurationNew(a.bkuptime, a.bkuptimensec).panic

\* The last dispatch is one whose arm panics: a Write or SetXAttr whose
\* payload length differs from the declared size, or a SetAttr with a set
\* time field whose conversion panics.
PanicInput ==
    /\ pre.initialized /\ ~pre.destroyed
    /\ \/ req.op = "Write" /\ Len(req.arg.data) # req.arg.size
       \/ req.op = "SetXAttr" /\ Len(req.arg.value) # req.arg.size
       \/ req.op = "SetAttr" /\ SetAttrTimePanics

\* C9 (amended): every dispatch that returns creates exactly one reply object
\* unless it took the Forget arm, which creates none; the dispatcher's own
\* answers are exactly one transmission; no dispatch creates or sends two; a
\* dispatch panics exactly on a Write or SetXAttr whose payload length differs
\* from the declared size and on a SetAttr with a set time field whose
\* conversion panics, and then creates no reply object and sends nothing.
C9_OneReplyUnlessPanic ==
    Dispatched =>
        /\ (~aborted /\ ~TookForgetArm) => Len(Creates(trace)) = 1
        /\ TookForgetArm => (Len(Creates(trace)) = 0 /\ ~aborted)
        /\ SelfAnswered => (Len(Sends(trace)) = 1 /\ ~aborted)
        /\ Len(Creates(trace)) <= 1
        /\ Len(Sends(trace)) <= 1
        /\ aborted <=> PanicInput
        /\ aborted => (Creates(trace) = <<>> /\ Sends(trace) = <<>>)

\* C9 reached: a Write whose payload disagrees with its size panicked without
\* a reply object.
C9_Witness ==
    /\ req.op = "Write"
    /\ Len(req.arg.data) # req.arg.size
    /\ aborted
    /\ Creates(trace) = <<>>

\* C10: every reply object created in a dispatch, the ReplyDirectory of ReadDir
\* included, and every reply the dispatcher sends is bound to the unique id
\* of the request being dispatched.
C10_ReplyBoundToRequest ==
    \A i \in DOMAIN trace :
        /\ trace[i].ev = "create" => trace[i].reply.unique = req.unique
        /\ trace[i].ev = "send" => trace[i].unique = req.unique
        /\ (trace[i].ev = "call" /\ "reply" \in DOMAIN trace[i]) =>
              trace[i].reply.unique = req.unique

\* C10 reached: a ReadDir with unique id 2 handed readdir a ReplyDirectory
\* bound to 2.
C10_Witness ==
    /\ req.op = "ReadDir"
    /\ req.unique = 2
    /\ Len(Calls(trace)) = 1
    /\ Calls(trace)[1].reply.type = "ReplyDirectory"
    /\ Calls(trace)[1].reply.unique = 2

\* C11: a Forget dispatched on an initialized, not destroyed session creates
\* no reply object and sends nothing, and invokes the filesystem forget method
\* exactly once, with the node id of the header and the nlookup of the
\* argument, and no other method.
C11_ForgetNoReply ==
    TookForgetArm =>
        /\ Creates(trace) = <<>>
        /\ Sends(trace) = <<>>
        /\ trace = <<[ev |-> "call", method |-> "forget",
                      args |-> [nodeid |-> req.nodeid, nlookup |-> req.arg.nlookup]]>>
        /\ ~aborted

\* C11 reached: a Forget for node 12 on an initialized session ended in one
\* forget call and nothing else.
C11_Witness ==
    /\ req.op = "Forget"
    /\ req.nodeid = 12
    /\ pre.initialized /\ ~pre.destroyed
    /\ CountCalls(trace, "forget") = 1
    /\ Len(trace) = 1

\* C12 (as claimed): every dispatch of an Interrupt, in whatever session
\* state, is answered with exactly one ENOSYS error reply, invokes no
\* filesystem method and changes no session field.
C12_InterruptENOSYS ==
    req.op = "Interrupt" =>
        /\ Sends(trace) = ErrorReply(ENOSYS)
        /\ Calls(trace) = <<>>
        /\ se = pre

\* C12 (amended): an Interrupt is answered with exactly one error reply, which
\* is ENOSYS on an initialized, not destroyed session and EIO on a session that
\* is not initialized or is destroyed; in every session state it invokes no
\* filesystem method and changes no session field.
C12_InterruptAnswered ==
    req.op = "Interrupt" =>
        /\ (pre.initialized /\ ~pre.destroyed) => Sends(trace) = ErrorReply(ENOSYS)
        /\ (~pre.initialized \/ pre.destroyed) => Sends(trace) = ErrorReply(EIO)
        /\ Calls(trace) = <<>>
        /\ se = pre

\* C12 reached: an Interrupt on an initialized, not destroyed session was
\* answered with ENOSYS.
C12_Witness ==
    /\ req.op = "Interrupt"
    /\ pre.initialized /\ ~pre.destroyed
    /\ Sends(trace) = ErrorReply(ENOSYS)
    /\ se = pre

\* C13: a Write whose payload length differs from the size field of its
\* argument, dispatched on an initialized, not destroyed session, panics on
\* the assertion before the filesystem write method is invoked and before a
\* reply object is created; and the write method is only ever invoked with the
\* request's payload, whose length is the declared size.
C13_WriteSizeAsserted ==
    /\ (req.op = "Write" /\ pre.initialized /\ ~pre.destroyed
            /\ Len(req.arg.data) # req.arg.size) =>
        /\ trace = <<Panic>>
        /\ aborted
        /\ se = pre
    /\ \A i \in DOMAIN trace :
          IsCall(trace[i], "write") =>
              /\ req.op = "Write"
              /\ trace[i].args.data = req.arg.data
              /\ Len(trace[i].args.data) = req.arg.size

\* C13 reached: a Write declaring 1 byte and carrying 2 ended in the panic,
\* with no write call and no reply object.
C13_Witness ==
    /\ req.op = "Write"
    /\ pre.initialized /\ ~pre.destroyed
    /\ req.arg.size = 1 /\ Len(req.arg.data) = 2
    /\ trace = <<Panic>>
    /\ CountCalls(trace, "write") = 0

\* The last dispatch is a handshake that sent its success reply.
HandshakeSucceeded ==
    /\ req.op = "Init"
    /\ Len(Sends(trace)) = 1
    /\ Sends(trace)[1].ok

\* The fuse_init_out of the success reply of the last dispatch.
InitReply == Sends(trace)[1].payload[1]

Min(a, b) == IF a < b THEN a ELSE b

\* C14: in the handshake success reply, max_readahead is the minimum of the
\* max_readahead the kernel requested and BUFFER_SIZE, whatever was requested:
\* it exceeds neither BUFFER_SIZE nor the requested value.
C14_ReadaheadIsMin ==
    HandshakeSucceeded =>
        /\ InitReply.max_readahead = Min(req.arg.max_readahead, BUFFER_SIZE)
        /\ InitReply.max_readahead <= BUFFER_SIZE
        /\ InitReply.max_readahead <= req.arg.max_readahead
        /\ InitReply.max_readahead \in {BUFFER_SIZE, req.arg.max_readahead}

\* C14 reached: a request for one byte more than BUFFER_SIZE was answered with
\* BUFFER_SIZE.
C14_Witness ==
    /\ HandshakeSucceeded
    /\ req.arg.max_readahead = BUFFER_SIZE + 1
    /\ InitReply.max_readahead = BUFFER_SIZE

\* C15: in the handshake success reply, flags is exactly the intersection of
\* the flags the kernel advertised with INIT_FLAGS: no bit the kernel did not
\* advertise, no bit outside INIT_FLAGS, and every bit that is in both.
C15_FlagsIntersected ==
    HandshakeSucceeded =>
        /\ InitReply.flags \subseteq req.arg.flags
        /\ InitReply.flags \subseteq INIT_FLAGS(macos)
        /\ \A b \in req.arg.flags : b \in INIT_FLAGS(macos) => b \in InitReply.flags

\* C15 reached: on macOS the kernel advertised bits 0, 5, 30 and 31 and was
\* answered with 0, 30 and 31, the unsupported bit 5 dropped.
C15_Witness ==
    /\ HandshakeSucceeded
    /\ macos
    /\ req.arg.flags = {0, 5, 30, 31}
    /\ InitReply.flags = {0, 30, 31}

\* The last dispatch took the SetAttr arm.
TookSetAttrArm == req.op = "SetAttr" /\ pre.initialized /\ ~pre.destroyed

\* The setattr call e passes the field as present exactly where the bit of
\* the last request's validity mask is set, with the value of the argument
\* for the plain fields.
PresentIffBit(e) ==
    LET a == req.arg
        v == a.valid
    IN  /\ e.args.mode = IfBit(v, FATTR_MODE, a.mode)
        /\ e.args.uid = IfBit(v, FATTR_UID, a.uid)
        /\ e.args.gid = IfBit(v, FATTR_GID, a.gid)
        /\ e.args.size = IfBit(v, FATTR_SIZE, a.size)
        /\ e.args.fh = IfBit(v, FATTR_FH, a.fh)
        /\ e.args.atime.some <=> BitSet(v, FATTR_ATIME)
        /\ e.args.mtime.some <=> BitSet(v, FATTR_MTIME)

\* C16 (as claimed): a SetAttr on an initialized, not destroyed session passes
\* each of mode, uid, gid, size, atime, mtime and fh to the filesystem setattr
\* method as present if and only if its own bit is set in the validity mask,
\* whatever the other bits and the field values are.
C16_PresentIffBit ==
    TookSetAttrArm =>
        /\ CountCalls(trace, "setattr") = 1
        /\ \A i \in DOMAIN trace : IsCall(trace[i], "setattr") => PresentIffBit(trace[i])

\* C17 (as claimed): during a handshake the initialized flag is set only
\* after the success reply has been transmitted.
C17_InitializedAfterSend ==
    \A i \in DOMAIN trace :
        (trace[i].ev = "set" /\ trace[i].field = "initialized") =>
            \E j \in DOMAIN trace : j < i /\ trace[j].ev = "send" /\ trace[j].ok

\* C18 (as claimed): once destroyed is true, no dispatch of any operation
\* changes any session field.
C18_DestroyedTerminal ==
    (Dispatched /\ pre.destroyed) => se = pre

\* C19: a dispatch of any operation other than Init and Destroy assigns no
\* session field and leaves initialized, destroyed, proto_major and
\* proto_minor as it found them, in every session state and whether it ends
\* with a reply of the filesystem, an error reply of the dispatcher, no reply
\* or a panic.
C19_OnlyHandshakeAndTeardownMutate ==
    (Dispatched /\ req.op \notin {"Init", "Destroy"}) =>
        /\ se = pre
        /\ \A i \in DOMAIN trace : trace[i].ev # "set"

\* C19 reached: a Read on a destroyed session was answered with EIO and the
\* session is as the teardown left it.
C19_Witness ==
    /\ req.op = "Read"
    /\ pre.destroyed
    /\ Sends(trace) = ErrorReply(EIO)
    /\ se = pre
    /\ se.proto_major = 7 /\ se.proto_minor = 31

\* The last dispatch took one of the arms below the Interrupt arm.
TookForwardingArm ==
    /\ Dispatched
    /\ pre.initialized /\ ~pre.destroyed
    /\ req.op \notin {"Init", "Destroy", "Interrupt"}

\* The filesystem method of each opcode.
MethodOf(op) ==
    CASE op = "Lookup" -> "lookup"
      [] op = "Forget" -> "forget"
      [] op = "GetAttr" -> "getattr"
      [] op = "SetAttr" -> "setattr"
      [] op = "ReadLink" -> "readlink"
      [] op = "MkNod" -> "mknod"
      [] op = "MkDir" -> "mkdir"
      [] op = "Unlink" -> "unlink"
      [] op = "RmDir" -> "rmdir"
      [] op = "SymLink" -> "symlink"
      [] op = "Rename" -> "rename"
      [] op = "Link" -> "link"
      [] op = "Open" -> "open"
      [] op = "Read" -> "read"
      [] op = "Write" -> "write"
      [] op = "Flush" -> "flush"
      [] op = "Release" -> "release"
      [] op = "FSync" -> "fsync"
      [] op = "OpenDir" -> "opendir"
      [] op = "ReadDir" -> "readdir"
      [] op = "ReleaseDir" -> "releasedir"
      [] op = "FSyncDir" -> "fsyncdir"
      [] op = "StatFs" -> "statfs"
      [] op = "SetXAttr" -> "setxattr"
      [] op = "GetXAttr" -> "getxattr"
      [] op = "ListXAttr" -> "listxattr"
      [] op = "RemoveXAttr" -> "removexattr"
      [] op = "Access" -> "access"
      [] op = "Create" -> "create"
      [] op = "GetLk" -> "getlk"
      [] op = "SetLk" -> "setlk"
      [] op = "SetLkW" -> "setlk"
      [] op = "BMap" -> "bmap"
      [] op = "SetVolName" -> "setvolname"
      [] op = "GetXTimes" -> "getxtimes"
      [] op = "Exchange" -> "exchange"

\* The call e passes the node id of the last request's header; for Link, the
\* argument's oldnodeid as the node and the header's node id as new parent.
PassesHeaderNode(e) ==
    /\ "nodeid" \in DOMAIN e.args
    /\ IF req.op = "Link"
       THEN e.args.nodeid = req.arg.oldnodeid /\ e.args.newparent = req.nodeid
       ELSE e.args.nodeid = req.nodeid

\* C20 (as claimed): on an initialized, not destroyed session every operation
\* other than Init, Destroy and Interrupt invokes exactly one filesystem
\* method, the one of its opcode, once, passing the node id of the header
\* (for Link: oldnodeid as the node, the header's node id as new parent).
C20_ExactlyOneMethod ==
    TookForwardingArm =>
        /\ Len(Calls(trace)) = 1
        /\ Calls(trace)[1].method = MethodOf(req.op)
        /\ PassesHeaderNode(Calls(trace)[1])

\* C20 (amended): on an initialized, not destroyed session an operation other
\* than Init, Destroy and Interrupt invokes no filesystem method when its arm
\* panics (Write or SetXAttr with a payload length other than the declared
\* size, SetAttr with a set time field whose conversion panics) and otherwise
\* exactly one, the one of its opcode, once.  The call passes the node id of
\* the header, except that Link passes oldnodeid as the node and the header's
\* node id as new parent, SetVolName passes no node id, and Exchange passes
\* the argument's olddir and newdir and not the header's node id.
C20_OneMethodUnlessPanic ==
    TookForwardingArm =>
        /\ aborted <=> PanicInput
        /\ aborted => Calls(trace) = <<>>
        /\ ~aborted =>
            /\ Len(Calls(trace)) = 1
            /\ Calls(trace)[1].method = MethodOf(req.op)
            /\ CASE req.op = "SetVolName" ->
                        "nodeid" \notin DOMAIN Calls(trace)[1].args
                 [] req.op = "Exchange" ->
                        /\ "nodeid" \notin DOMAIN Calls(trace)[1].args
                        /\ Calls(trace)[1].args.parent = req.arg.olddir
                        /\ Calls(trace)[1].args.newparent = req.arg.newdir
                 [] OTHER -> PassesHeaderNode(Calls(trace)[1])

\* C20 reached: a Link for header node 12 invoked link once, with the
\* argument's oldnodeid as the node and 12 as the new parent.
C20_Witness ==
    /\ TookForwardingArm
    /\ req.op = "Link"
    /\ req.nodeid = 12
    /\ Len(Calls(trace)) = 1
    /\ Calls(trace)[1].method = "link"
    /\ Calls(trace)[1].args.nodeid = req.arg.oldnodeid
    /\ Calls(trace)[1].args.newparent = 12

\* The offset secs + nsec from the epoch is outside the representable time
\* range: the Duration or the SystemTime cannot hold it.
TimeOverflows(secs, nsec) ==
    LET c == CheckedAddEpoch(secs, nsec) IN c.panic \/ ~c.some

\* The setattr call e surfaces the named time field as the current time when
\* its bit is set and its offset overflows.
ClampedToNow(e, bit, field, secs, nsec) ==
    (BitSet(req.arg.valid, bit) /\ TimeOverflows(secs, nsec)) =>
        e.args[field] = Some(Now)

\* C21 (as claimed): no SetAttr makes dispatch abort; a SetAttr on an
\* initialized, not destroyed session is always handed to setattr with a reply
\* object, and a time field whose bit is set and whose offset from the epoch
\* overflows is surfaced as the current time: atime and mtime, and on macOS
\* crtime, chgtime and bkuptime.
C21_OverflowClampedToNow ==
    TookSetAttrArm =>
        /\ ~aborted
        /\ Len(Creates(trace)) = 1
        /\ Len(Calls(trace)) = 1
        /\ \A i \in DOMAIN trace :
              IsCall(trace[i], "setattr") =>
                  LET a == req.arg
                      e == trace[i]
                  IN  /\ ClampedToNow(e, FATTR_ATIME, "atime", a.atime, a.atimensec)
                      /\ ClampedToNow(e, FATTR_MTIME, "mtime", a.mtime, a.mtimensec)
                      /\ macos =>
                          /\ ClampedToNow(e, FATTR_CRTIME, "crtime", a.crtime, a.crtimensec)
                          /\ ClampedToNow(e, FATTR_CHGTIME, "chgtime", a.chgtime, a.chgtimensec)
                          /\ ClampedToNow(e, FATTR_BKUPTIME, "bkuptime", a.bkuptime, a.bkuptimensec)

\* C22: in every state reached from a fresh session, destroyed implies
\* initialized; no dispatch takes either flag from true back to false or
\* assigns false to one; and destroyed becomes true only in a Destroy that
\* found the session initialized.
C22_FlagsMonotone ==
    /\ se.destroyed => se.initialized
    /\ pre.initialized => se.initialized
    /\ pre.destroyed => se.destroyed
    /\ \A i \in DOMAIN trace :
          (trace[i].ev = "set" /\ trace[i].field \in {"initialized", "destroyed"}) =>
              trace[i].value = TRUE
    /\ (~pre.destroyed /\ se.destroyed) => (req.op = "Destroy" /\ pre.initialized)
    /\ CountCalls(trace, "destroy") > 0 => pre.initialized

\* C22 reached: a handshake whose hook failed, dispatched on a destroyed
\* session, left both flags true.
C22_Witness ==
    /\ req.op = "Init"
    /\ pre.destroyed /\ pre.initialized
    /\ InitFailed
    /\ se.destroyed /\ se.initialized

=============================================================================
